---- MODULE Spec2Model ----
(***************************************************************************)
(* Model of the docker-offload-demo status server.                         *)
(*                                                                         *)
(* The repository holds several generations of the same Express server:    *)
(*   - src/app.js                 async getGPUInfo, "/", "/health", "/gpu" *)
(*   - src/unnamed/part_000       the enhancement script, whose heredoc    *)
(*                                writes an app.js ("script" variant)      *)
(*   - src/README.md:615-926      the later app.js that checks the         *)
(*                                environment first ("envFirst" variant)   *)
(* Both generations of checkGPUSupport / checkDockerOffload / /api/status  *)
(* are modelled, each as its own operator and action.                      *)
(*                                                                         *)
(* JavaScript strings that the code parses are sequences of one-character  *)
(* strings; fixed labels that are only compared are TLA+ strings.          *)
(***************************************************************************)
EXTENDS Integers, Sequences, FiniteSets, TLC

(***************************************************************************)
(* Bounds of the model.                                                    *)
(***************************************************************************)
\* memory is counted in units; UnitsPerGB units make one GiB
UnitsPerGB == 2
\* largest total memory, in units
MaxMemUnits == 3

(***************************************************************************)
(* JavaScript values: undefined, booleans and strings, with truthiness,    *)
(* || and && as the language defines them.                                 *)
(***************************************************************************)
JsUndefined == [t |-> "undefined", b |-> FALSE, s |-> ""]
JsBool(x) == [t |-> "boolean", b |-> x, s |-> ""]
JsString(x) == [t |-> "string", b |-> FALSE, s |-> x]

Truthy(v) ==
    CASE v.t = "boolean" -> v.b
      [] v.t = "string" -> v.s # ""
      [] OTHER -> FALSE

JsOr(a, b) == IF Truthy(a) THEN a ELSE b
JsAnd(a, b) == IF Truthy(a) THEN b ELSE a

(***************************************************************************)
(* String primitives of the runtime: trim, split, parseInt.                *)
(***************************************************************************)
NL == "\n"
Whitespace == {" ", NL, "\t", "\r"}
DigitChars == <<"0", "1", "2", "3", "4", "5", "6", "7", "8", "9">>
IsDigit(c) == \E d \in 1..10 : DigitChars[d] = c
DigitVal(c) == (CHOOSE d \in 1..10 : DigitChars[d] = c) - 1

RECURSIVE TrimStart(_)
TrimStart(s) ==
    IF s = <<>> THEN <<>>
    ELSE IF Head(s) \in Whitespace THEN TrimStart(Tail(s))
    ELSE s

RECURSIVE TrimEnd(_)
TrimEnd(s) ==
    IF s = <<>> THEN <<>>
    ELSE IF s[Len(s)] \in Whitespace THEN TrimEnd(SubSeq(s, 1, Len(s) - 1))
    ELSE s

\* String.prototype.trim
Trim(s) == TrimEnd(TrimStart(s))

StartsWith(s, sep) ==
    /\ Len(s) >= Len(sep)
    /\ SubSeq(s, 1, Len(sep)) = sep

\* String.prototype.split(sep) for a non-empty separator: always at least
\* one piece, the empty string splits into one empty piece
RECURSIVE SplitFrom(_, _, _)
SplitFrom(s, sep, acc) ==
    IF s = <<>> THEN <<acc>>
    ELSE IF StartsWith(s, sep)
         THEN <<acc>> \o SplitFrom(SubSeq(s, Len(sep) + 1, Len(s)), sep, <<>>)
         ELSE SplitFrom(Tail(s), sep, Append(acc, Head(s)))

Split(s, sep) == SplitFrom(s, sep, <<>>)

\* the digits at the start of s, as a number; -1 when there is none
RECURSIVE DigitPrefix(_, _, _)
DigitPrefix(s, acc, seen) ==
    IF s # <<>> /\ IsDigit(Head(s))
    THEN DigitPrefix(Tail(s), acc * 10 + DigitVal(Head(s)), TRUE)
    ELSE IF seen THEN acc ELSE -1

\* JavaScript numbers: the integers the model needs, NaN and the infinities
NaN == [k |-> "NaN", n |-> 0]
NegInfinity == [k |-> "-Infinity", n |-> 0]
PosInfinity == [k |-> "Infinity", n |-> 0]
Num(x) == [k |-> "finite", n |-> x]

\* parseInt(string) in radix 10: leading white space is skipped, an optional
\* sign is read, then the longest run of digits; NaN when there is no digit.
\* (The outputs enumerated below never start a field with 0x.)
ParseIntStr(s) ==
    LET t == TrimStart(s)
        neg == t # <<>> /\ Head(t) = "-"
        u == IF t # <<>> /\ Head(t) \in {"-", "+"} THEN Tail(t) ELSE t
        v == DigitPrefix(u, 0, FALSE)
    IN IF v = -1 THEN NaN ELSE Num(IF neg THEN 0 - v ELSE v)

\* parseInt(arr[i]) with a zero-based index i; a missing element is
\* undefined, which parses to NaN
parseInt(arr, i) == IF i + 1 > Len(arr) THEN NaN ELSE ParseIntStr(arr[i + 1])

\* the expression  x || d  for a number x: NaN and 0 are falsy
NumOr(x, d) == IF x.k = "NaN" \/ x.n = 0 THEN d ELSE x.n

\* decimal rendering of a natural number
RECURSIVE Digits(_)
Digits(n) ==
    IF n < 10 THEN <<DigitChars[n + 1]>>
    ELSE Digits(n \div 10) \o <<DigitChars[(n % 10) + 1]>>

(***************************************************************************)
(* Inputs: the process environment, the file system, the host and the      *)
(* outcomes of the nvidia-smi invocation.                                  *)
(***************************************************************************)
EnvVars == {"NVIDIA_VISIBLE_DEVICES", "CUDA_VISIBLE_DEVICES",
            "DOCKER_OFFLOAD", "OFFLOAD_ENABLED"}

\* process.env.X is undefined when X is not set, and may be set to the
\* empty string, which is falsy
EnvValues(v) ==
    CASE v = "NVIDIA_VISIBLE_DEVICES" -> {JsUndefined, JsString(""), JsString("all")}
      [] v = "CUDA_VISIBLE_DEVICES" -> {JsUndefined, JsString("0")}
      [] v = "DOCKER_OFFLOAD" -> {JsUndefined, JsString(""), JsString("1")}
      [] OTHER -> {JsUndefined, JsString("true")}

IsSet(v) == v # JsUndefined

\* host names: the 12 characters of a container id, a short name, a long one
ContainerId == <<"a", "1", "b", "2", "c", "3", "d", "4", "e", "5", "f", "6">>
ShortName == <<"d", "e", "v", "p", "c">>
LongName == <<"g", "p", "u", "-", "b", "u", "i", "l", "d", "e", "r", "-", "7">>
Hostnames == {ContainerId, ShortName, LongName}

\* labels of the GPU record
NVIDIA_GPU == <<"N", "V", "I", "D", "I", "A", " ", "G", "P", "U">>
NVIDIA_L4 == <<"N", "V", "I", "D", "I", "A", " ", "L", "4">>
No_GPU == <<"N", "o", " ", "G", "P", "U">>
Unknown == <<"U", "n", "k", "n", "o", "w", "n">>

TeslaT4 == <<"T", "e", "s", "l", "a", " ", "T", "4">>
A100 == <<"A", "1", "0", "0">>
NotAvailable == <<"[", "N", "/", "A", "]">>

GpuNames == {TeslaT4, A100}

\* the four numbers of a record: memory.total, memory.used, temperature.gpu,
\* utilization.gpu
GpuNumbers == {<<16384, 1024, 55, 10>>, <<0, 0, 0, 0>>,
               <<16384, 0, 55, 0>>, <<0, 1024, 0, 10>>}

CommaSpace == <<",", " ">>

\* one line of  --format=csv,noheader,nounits
FormatLine(name, r) ==
    name \o CommaSpace \o Digits(r[1]) \o CommaSpace \o Digits(r[2])
         \o CommaSpace \o Digits(r[3]) \o CommaSpace \o Digits(r[4])

\* stdout of a run that lists one GPU
WellFormedOutput(name, r) == FormatLine(name, r) \o <<NL>>

WellFormedOutputs == {WellFormedOutput(name, r) : name \in GpuNames, r \in GpuNumbers}

\* stdout of a run that lists two GPUs
TwoLineOutputs ==
    {FormatLine(TeslaT4, <<16384, 1024, 55, 10>>) \o <<NL>>
        \o FormatLine(TeslaT4, <<16384, 0, 55, 0>>) \o <<NL>>}

\* stdout that is not a record: empty, white space only, too few fields,
\* fields that are not numbers, fields separated by a bare comma
MalformedOutputs ==
    {<<>>, <<NL>>, <<" ", NL>>,
     TeslaT4 \o CommaSpace \o Digits(16384) \o <<NL>>,
     TeslaT4 \o CommaSpace \o NotAvailable \o CommaSpace \o Digits(1024)
        \o CommaSpace \o NotAvailable \o CommaSpace \o Digits(10) \o <<NL>>,
     TeslaT4 \o <<",">> \o Digits(16384) \o <<",">> \o Digits(1024)
        \o <<",">> \o Digits(55) \o <<",">> \o Digits(10) \o <<NL>>}

\* execSync either throws (command missing, non-zero exit, timeout) or
\* returns what the command wrote to stdout
SmiFailed == [ok |-> FALSE, stdout |-> <<>>]
SmiOutcomes ==
    {SmiFailed} \cup
    {[ok |-> TRUE, stdout |-> o] : o \in WellFormedOutputs \cup TwoLineOutputs \cup MalformedOutputs}

(***************************************************************************)
(* checkGPUSupport, script variant (src/unnamed/part_000:204-257).         *)
(***************************************************************************)
\* the record built from the first line of the output (lines 216-224)
gpuInfo_script(output) ==
    LET lines == Split(Trim(output), <<NL>>)
        gpuData == Split(lines[1], CommaSpace)
    IN [name |-> IF gpuData[1] # <<>> THEN gpuData[1] ELSE NVIDIA_GPU,
        memoryTotal |-> NumOr(parseInt(gpuData, 1), 0),
        memoryUsed |-> NumOr(parseInt(gpuData, 2), 0),
        temperature |-> NumOr(parseInt(gpuData, 3), 0),
        utilization |-> NumOr(parseInt(gpuData, 4), 0)]

\* mutation of fallbackInfo_script: the placeholder memory size is reported
\* without looking at the environment
fallbackInfo_script_mut(hasNvidiaDevices) ==
    [name |-> IF Truthy(hasNvidiaDevices) THEN NVIDIA_L4 ELSE No_GPU,
     memoryTotal |-> 23034,
     memoryUsed |-> 0,
     temperature |-> IF Truthy(hasNvidiaDevices) THEN 42 ELSE 0,
     utilization |-> 0]

\* the record reported when nvidia-smi gave nothing (lines 234-240)
fallbackInfo_script(hasNvidiaDevices) ==
    [name |-> IF Truthy(hasNvidiaDevices) THEN NVIDIA_L4 ELSE No_GPU,
     memoryTotal |-> IF Truthy(hasNvidiaDevices) THEN 23034 ELSE 0,
     memoryUsed |-> 0,
     temperature |-> IF Truthy(hasNvidiaDevices) THEN 42 ELSE 0,
     utilization |-> 0]

\* if (output): execSync returned a non-empty string (line 215)
haveGpuInfo_script(smi) == smi.ok /\ smi.stdout # <<>>

\* mutation of method_script: the environment is asked before the tool
method_script_mut(hasNvidiaDevices, haveInfo) ==
    IF Truthy(hasNvidiaDevices) THEN "Environment Variables"
    ELSE IF haveInfo THEN "nvidia-smi"
    ELSE "Not Detected"

\* the method tag (line 232)
method_script(hasNvidiaDevices, haveInfo) ==
    IF haveInfo THEN "nvidia-smi"
    ELSE IF Truthy(hasNvidiaDevices) THEN "Environment Variables"
    ELSE "Not Detected"

checkGPUSupport_script(e, smi) ==
    LET hasNvidiaDevices == JsOr(e["NVIDIA_VISIBLE_DEVICES"], e["CUDA_VISIBLE_DEVICES"])
        haveInfo == haveGpuInfo_script(smi)
    IN [detected |-> Truthy(hasNvidiaDevices) \/ haveInfo,
        method |-> method_script(hasNvidiaDevices, haveInfo),
        details |-> IF haveInfo THEN "Full GPU access available"
                    ELSE IF Truthy(hasNvidiaDevices) THEN "Runtime Detection"
                    ELSE "No GPU detected",
        info |-> IF haveInfo THEN gpuInfo_script(smi.stdout)
                 ELSE fallbackInfo_script(hasNvidiaDevices)]

(***************************************************************************)
(* checkGPUSupport, environment-first variant (src/README.md:632-749).     *)
(***************************************************************************)
\* if (output && output.trim()) (lines 660 and 699)
haveGpuInfo_envFirst(smi) == smi.ok /\ smi.stdout # <<>> /\ Trim(smi.stdout) # <<>>

\* the record parsed when the environment announces a GPU (lines 661-669)
gpuInfo_envBranch(output) ==
    LET lines == Split(Trim(output), <<NL>>)
        gpuData == Split(lines[1], CommaSpace)
    IN [name |-> IF Trim(gpuData[1]) # <<>> THEN Trim(gpuData[1]) ELSE NVIDIA_GPU,
        memoryTotal |-> NumOr(parseInt(gpuData, 1), 23034),
        memoryUsed |-> NumOr(parseInt(gpuData, 2), 0),
        temperature |-> NumOr(parseInt(gpuData, 3), 42),
        utilization |-> NumOr(parseInt(gpuData, 4), 0)]

\* the record parsed when it does not (lines 700-708)
gpuInfo_noEnvBranch(output) ==
    LET lines == Split(Trim(output), <<NL>>)
        gpuData == Split(lines[1], CommaSpace)
    IN [name |-> IF Trim(gpuData[1]) # <<>> THEN Trim(gpuData[1]) ELSE NVIDIA_GPU,
        memoryTotal |-> NumOr(parseInt(gpuData, 1), 0),
        memoryUsed |-> NumOr(parseInt(gpuData, 2), 0),
        temperature |-> NumOr(parseInt(gpuData, 3), 0),
        utilization |-> NumOr(parseInt(gpuData, 4), 0)]

\* mutation of envDefaultInfo: the temperature placeholder is left at 0
envDefaultInfo_mut ==
    [name |-> NVIDIA_L4, memoryTotal |-> 23034, memoryUsed |-> 0,
     temperature |-> 0, utilization |-> 0]

\* the defaults of a GPU known from the environment only (lines 678-686)
envDefaultInfo ==
    [name |-> NVIDIA_L4, memoryTotal |-> 23034, memoryUsed |-> 0,
     temperature |-> 42, utilization |-> 0]

\* the final fallback (lines 718-726)
noGpuInfo ==
    [name |-> No_GPU, memoryTotal |-> 0, memoryUsed |-> 0,
     temperature |-> 0, utilization |-> 0]

\* detectionMethod (lines 641, 647, 670, 710)
method_envFirst(hasGpuEnv, haveInfo) ==
    IF Truthy(hasGpuEnv)
    THEN IF haveInfo THEN "nvidia-smi + Environment" ELSE "Environment Variables"
    ELSE IF haveInfo THEN "nvidia-smi" ELSE "Not Detected"

checkGPUSupport_envFirst(e, smi) ==
    LET hasGpuEnv == JsOr(e["NVIDIA_VISIBLE_DEVICES"], e["CUDA_VISIBLE_DEVICES"])
        haveInfo == haveGpuInfo_envFirst(smi)
        isDetected == Truthy(hasGpuEnv) \/ haveInfo
    IN [detected |-> isDetected,
        method |-> method_envFirst(hasGpuEnv, haveInfo),
        details |-> IF isDetected THEN "Full GPU access available" ELSE "No GPU detected",
        info |-> IF Truthy(hasGpuEnv)
                 THEN IF haveInfo THEN gpuInfo_envBranch(smi.stdout) ELSE envDefaultInfo
                 ELSE IF haveInfo THEN gpuInfo_noEnvBranch(smi.stdout) ELSE noGpuInfo]

(***************************************************************************)
(* checkDockerOffload.  os.hostname() throws when the host name cannot be  *)
(* read; fs.existsSync never throws and answers false for a file it cannot *)
(* see.  A call either returns a value or throws.                          *)
(***************************************************************************)
Returned(v) == [threw |-> FALSE, value |-> v]
Threw == [threw |-> TRUE]

\* mutation of isOffloadContainer_script: host names of 12 characters or more
isOffloadContainer_script_mut(e, name, isContainer) ==
    LET hasOffloadEnv == JsOr(e["DOCKER_OFFLOAD"], e["OFFLOAD_ENABLED"])
    IN JsAnd(JsBool(isContainer), JsOr(JsBool(Len(name) >= 12), hasOffloadEnv))

\* isContainer && (hostname.length === 12 || hasOffloadEnv)
\* (src/unnamed/part_000:264-266)
isOffloadContainer_script(e, name, isContainer) ==
    LET hasOffloadEnv == JsOr(e["DOCKER_OFFLOAD"], e["OFFLOAD_ENABLED"])
    IN JsAnd(JsBool(isContainer), JsOr(JsBool(Len(name) = 12), hasOffloadEnv))

\* src/unnamed/part_000:260-280; the catch block reads the host name again
checkDockerOffload_script(e, h, isContainer) ==
    IF h.fails THEN Threw
    ELSE Returned([enabled |-> isOffloadContainer_script(e, h.name, isContainer),
                   hostname |-> h.name,
                   container |-> isContainer])

\* mutation of isOffloadContainer_envFirst: || in the place of &&
isOffloadContainer_envFirst_mut(e, name, isContainer) ==
    LET hasOffloadEnv == JsOr(e["DOCKER_OFFLOAD"], e["OFFLOAD_ENABLED"])
    IN JsOr(JsBool(isContainer),
            JsOr(JsOr(JsOr(JsBool(Len(name) = 12), hasOffloadEnv),
                      e["NVIDIA_VISIBLE_DEVICES"]),
                 e["CUDA_VISIBLE_DEVICES"]))

\* isContainer && (hostname.length === 12 || hasOffloadEnv ||
\*                 NVIDIA_VISIBLE_DEVICES || CUDA_VISIBLE_DEVICES)
\* (src/README.md:756-764)
isOffloadContainer_envFirst(e, name, isContainer) ==
    LET hasOffloadEnv == JsOr(e["DOCKER_OFFLOAD"], e["OFFLOAD_ENABLED"])
    IN JsAnd(JsBool(isContainer),
             JsOr(JsOr(JsOr(JsBool(Len(name) = 12), hasOffloadEnv),
                       e["NVIDIA_VISIBLE_DEVICES"]),
                  e["CUDA_VISIBLE_DEVICES"]))

\* src/README.md:752-778
checkDockerOffload_envFirst(e, h, isContainer) ==
    IF h.fails THEN Threw
    ELSE Returned([enabled |-> isOffloadContainer_envFirst(e, h.name, isContainer),
                   hostname |-> h.name,
                   container |-> isContainer])

(***************************************************************************)
(* getSystemInfo (src/unnamed/part_000:283-301, src/README.md:781-800).    *)
(* Memory is read in units of 1/UnitsPerGB GiB.  os.totalmem() and         *)
(* os.freemem() answer 0 when the platform cannot tell, os.cpus() answers  *)
(* an empty list.                                                          *)
(***************************************************************************)
\* Math.round(a / b) for b > 0: halves round towards plus infinity
RoundDiv(a, b) == (2 * a + b) \div (2 * b)

\* Math.round(bytes / (1024 * 1024 * 1024))
roundGB(m) == RoundDiv(m, UnitsPerGB)

\* mutation of memoryUsagePercent: Math.floor in the place of Math.round
memoryUsagePercent_mut(usedMem, totalMem) ==
    IF totalMem = 0
    THEN IF usedMem = 0 THEN NaN
         ELSE IF usedMem < 0 THEN NegInfinity ELSE PosInfinity
    ELSE Num((100 * usedMem) \div totalMem)

\* Math.round((usedMem / totalMem) * 100)
memoryUsagePercent(usedMem, totalMem) ==
    IF totalMem = 0
    THEN IF usedMem = 0 THEN NaN
         ELSE IF usedMem < 0 THEN NegInfinity ELSE PosInfinity
    ELSE Num(RoundDiv(100 * usedMem, totalMem))

getSystemInfo(totalMem, freeMem, cpus, h) ==
    LET usedMem == totalMem - freeMem
    IN IF h.fails THEN Threw
       ELSE Returned([hostname |-> h.name,
                      cpuCores |-> cpus,
                      totalMemory |-> roundGB(totalMem),
                      freeMemory |-> roundGB(freeMem),
                      usedMemory |-> roundGB(usedMem),
                      memoryUsagePercent |-> memoryUsagePercent(usedMem, totalMem)])

\* what the operating system reports: <<total, free>>; free never exceeds
\* a total that is known
MemReadings ==
    {<<t, f>> \in (0..MaxMemUnits) \X (0..MaxMemUnits) : f <= t \/ t = 0}

\* os.cpus().length
CpuCounts == {0, 4}

(***************************************************************************)
(* The outer try/catch of checkGPUSupport.  An exception raised inside the *)
(* outer try block but outside the inner one (fault) is caught by the      *)
(* outer catch, which returns the 'Detection Failed' record; the failure   *)
(* of nvidia-smi itself is caught by the inner catch.                      *)
(***************************************************************************)
\* mutation of detectionFailed: the label of the not-detected path
detectionFailed_mut ==
    [detected |-> FALSE,
     method |-> "Detection Failed",
     details |-> "GPU detection encountered an error",
     info |-> [name |-> No_GPU, memoryTotal |-> 0, memoryUsed |-> 0,
               temperature |-> 0, utilization |-> 0]]

\* src/unnamed/part_000:244-255, src/README.md:736-747
detectionFailed ==
    [detected |-> FALSE,
     method |-> "Detection Failed",
     details |-> "GPU detection encountered an error",
     info |-> [name |-> Unknown, memoryTotal |-> 0, memoryUsed |-> 0,
               temperature |-> 0, utilization |-> 0]]

\* mutation of tryCheckGPUSupport_script: the outer catch rethrows
tryCheckGPUSupport_script_mut(e, smi, fault) ==
    IF fault THEN Threw ELSE Returned(checkGPUSupport_script(e, smi))

\* src/unnamed/part_000:204-257
tryCheckGPUSupport_script(e, smi, fault) ==
    IF fault THEN Returned(detectionFailed)
    ELSE Returned(checkGPUSupport_script(e, smi))

\* src/README.md:632-749
tryCheckGPUSupport_envFirst(e, smi, fault) ==
    IF fault THEN Returned(detectionFailed)
    ELSE Returned(checkGPUSupport_envFirst(e, smi))

(***************************************************************************)
(* src/app.js: getGPUInfo and runGPUTest.  Both are async and run          *)
(* nvidia-smi through execAsync = promisify(exec), with no options.        *)
(***************************************************************************)
AppJsEnvVars == {"NVIDIA_VISIBLE_DEVICES", "CUDA_VISIBLE_DEVICES", "GPU_ENABLED"}

AppJsEnvs ==
    {e \in [AppJsEnvVars -> UNION {EnvValues(v) : v \in AppJsEnvVars}] :
        \A v \in AppJsEnvVars : e[v] \in EnvValues(v)}

NA == <<"N", "/", "A">>
GPU_Environment_Detected ==
    <<"G", "P", "U", " ", "E", "n", "v", "i", "r", "o", "n", "m", "e", "n", "t",
      " ", "D", "e", "t", "e", "c", "t", "e", "d">>
No_GPU_Available ==
    <<"N", "o", " ", "G", "P", "U", " ", "A", "v", "a", "i", "l", "a", "b", "l", "e">>

\* the callback of gpuLines.map (lines 18-28): a field missing from the
\* line is undefined, and undefined.trim() throws a TypeError
gpuLine_appjs(line) ==
    LET f == Split(line, CommaSpace)
    IN IF Len(f) < 5 THEN Threw
       ELSE Returned([name |-> Trim(f[1]),
                      memoryTotal |-> Trim(f[2]) \o <<" ", "M", "B">>,
                      memoryUsed |-> Trim(f[3]) \o <<" ", "M", "B">>,
                      temperature |-> Trim(f[4]) \o <<"°", "C">>,
                      utilization |-> Trim(f[5]) \o <<"%">>,
                      available |-> TRUE])

\* the catch block of getGPUInfo (lines 29-44)
gpuFallback_appjs(e) ==
    LET hasGpuEnv == JsOr(JsOr(e["NVIDIA_VISIBLE_DEVICES"], e["CUDA_VISIBLE_DEVICES"]),
                          e["GPU_ENABLED"])
    IN <<[name |-> IF Truthy(hasGpuEnv) THEN GPU_Environment_Detected
                   ELSE No_GPU_Available,
          memoryTotal |-> NA, memoryUsed |-> NA,
          temperature |-> NA, utilization |-> NA,
          available |-> Truthy(hasGpuEnv),
          note |-> IF Truthy(hasGpuEnv)
                   THEN "GPU runtime detected but nvidia-smi not available"
                   ELSE "Run with --gpus all to enable GPU support"]>>

\* mutation of getGPUInfo_appjs: lines that cannot be parsed are dropped
getGPUInfo_appjs_mut(e, smi) ==
    LET gpuLines == Split(Trim(smi.stdout), <<NL>>)
        mapped == [i \in 1..Len(gpuLines) |-> gpuLine_appjs(gpuLines[i])]
    IN IF smi.ok
       THEN SelectSeq([i \in 1..Len(gpuLines) |->
                          IF mapped[i].threw THEN <<>> ELSE <<mapped[i].value>>],
                      LAMBDA x : x # <<>>)
       ELSE gpuFallback_appjs(e)

\* src/app.js:12-45, once the nvidia-smi invocation has settled as smi
getGPUInfo_appjs(e, smi) ==
    LET gpuLines == Split(Trim(smi.stdout), <<NL>>)
        mapped == [i \in 1..Len(gpuLines) |-> gpuLine_appjs(gpuLines[i])]
    IN IF smi.ok /\ \A i \in 1..Len(gpuLines) : ~mapped[i].threw
       THEN [i \in 1..Len(gpuLines) |-> mapped[i].value]
       ELSE gpuFallback_appjs(e)

\* parseInt(stdout.trim()) || 0 (line 52)
gpuCount_appjs(stdout) == NumOr(ParseIntStr(Trim(stdout)), 0)

\* the catch block of runGPUTest (lines 62-70)
testFallback_appjs(e) ==
    LET hasGpu == JsOr(e["NVIDIA_VISIBLE_DEVICES"], e["CUDA_VISIBLE_DEVICES"])
    IN [success |-> Truthy(hasGpu),
        message |-> IF Truthy(hasGpu) THEN "GPU Environment Active" ELSE "No GPU Available"]

\* lines 57-61
testCompleted_appjs == [success |-> TRUE, message |-> "GPU Test Completed"]

\* lines 73-77
testFailed_appjs == [success |-> FALSE, message |-> "GPU Test Failed"]

\* new Date().toLocaleString(): the date and time to the second
toLocaleString(t, ticksPerSecond) == t \div ticksPerSecond

(***************************************************************************)
(* State.  The server keeps nothing between requests; env, dockerenv and   *)
(* host are its surroundings.  The handlers are synchronous, so requests   *)
(* are served one at a time: gpu, docker and system are the locals of the  *)
(* handler that is answering, response is its answer, and all four are     *)
(* dropped when the handler returns.                                       *)
(***************************************************************************)
VARIABLES
    env,        \* process.env, restricted to EnvVars
    dockerenv,  \* fs.existsSync('/.dockerenv')
    host,       \* os.hostname(): its value, or that reading it throws
    gpu,        \* the checkGPUSupport call of the last request
    docker,     \* the checkDockerOffload call of the last request
    system,     \* the getSystemInfo call of the last request
    response,   \* the answer to the last request
    prev,       \* history: the status snapshot answered before this one
    clock,      \* the wall clock, in ticks of 1 / TicksPerSecond seconds
    appjs,      \* the request the src/app.js server is answering
    shown,      \* history: the 'Started' values shown since the process began
    countdown,        \* the page's countdown variable
    refreshInterval,  \* the page's refreshInterval variable: is the timer set
    fetches,          \* the /api/status fetches in flight: ticks each has waited
    timers,           \* the pending error follow-up timers: ticks each has waited
    display,          \* what the status cards and info fields show
    indicator,        \* the text of the refresh indicator
    poll,             \* history: ticks since the last fetch started, last gap
    uptimeText,       \* the uptime as the server formats it and as the page shows it
    connections,      \* the open connections of the HTTP server
    closing,          \* the callbacks passed to server.close() that wait for 'close'
    forceTimers,      \* the pending force timers: seconds each has waited
    signals,          \* history: the signals received
    exit              \* the exit code of the process once it has exited

serverVars == <<env, dockerenv, host, gpu, docker, system, response>>
appVars == <<clock, appjs, shown>>
clientVars == <<countdown, refreshInterval, fetches, timers, display, indicator, poll>>
procVars == <<uptimeText, connections, closing, forceTimers, signals, exit>>
vars == <<serverVars, prev, appVars, clientVars, procVars>>

NotCalled == [called |-> FALSE]
NoResponse == [route |-> "", impl |-> "", status |-> 0, body |-> ""]
NoSnapshot == [taken |-> FALSE]
AppIdle == [pc |-> "idle"]
NotFormatted == [server |-> <<>>, client |-> <<>>]
Running == <<>>

\* let countdown = 30 (src/public/index.html:458), and the reset of line 565
RefreshSeconds == 30
\* setTimeout(..., 2000) against setInterval(..., 1000): two ticks
ErrorDelayTicks == 2
NoPoll == [since |-> 0, gap |-> <<>>, failed |-> FALSE, recovered |-> FALSE]
\* the status cards, info fields, progress bars and status message of the
\* page as served
Placeholder ==
    [dockerCard |-> "placeholder", gpuCard |-> "placeholder", info |-> "placeholder",
     bars |-> "placeholder", message |-> "placeholder"]
\* the indicator reads 'Refreshing...' in the page as served and while a
\* fetch starts, 'Next refresh: Ns' after updateCountdown, 'Error' after a
\* failed fetch
Refreshing == [text |-> "Refreshing...", n |-> 0]
NextRefresh(n) == [text |-> "Next refresh", n |-> n]
FetchError == [text |-> "Error", n |-> 0]

HostStates ==
    {[fails |-> FALSE, name |-> n] : n \in Hostnames} \cup {[fails |-> TRUE, name |-> <<>>]}

Init ==
    /\ env \in {e \in [EnvVars -> UNION {EnvValues(v) : v \in EnvVars}] :
                    \A v \in EnvVars : e[v] \in EnvValues(v)}
    /\ dockerenv \in BOOLEAN
    /\ host \in HostStates
    /\ gpu = NotCalled
    /\ docker = NotCalled
    /\ system = NotCalled
    /\ response = NoResponse
    /\ prev = NoSnapshot
    /\ clock = 0
    /\ appjs = AppIdle
    /\ shown = {}
    /\ countdown = RefreshSeconds
    /\ refreshInterval = FALSE
    /\ fetches = <<>>
    /\ timers = <<>>
    /\ display = Placeholder
    /\ indicator = Refreshing
    /\ poll = NoPoll
    /\ uptimeText = NotFormatted
    /\ connections = 0
    /\ closing = 0
    /\ forceTimers = <<>>
    /\ signals = <<>>
    /\ exit = Running

(***************************************************************************)
(* GET /api/status.  The handler calls the three functions in order; an    *)
(* exception ends it at the call that throws.                              *)
(***************************************************************************)
\* the locals and the answer of one run of the handler
statusRun(impl, smi, fault, mem, cpus, g, d, s, errorBody) ==
    LET failed == g.threw \/ d.threw \/ s.threw
    IN /\ gpu' = [called |-> TRUE, impl |-> impl, smi |-> smi, fault |-> fault,
                  threw |-> g.threw,
                  value |-> IF g.threw THEN detectionFailed ELSE g.value]
       /\ docker' = IF g.threw THEN NotCalled
                    ELSE [called |-> TRUE, impl |-> impl, result |-> d]
       /\ system' = IF g.threw \/ d.threw THEN NotCalled
                    ELSE [called |-> TRUE, mem |-> mem, cpus |-> cpus, result |-> s]
       /\ response' = [route |-> "/api/status", impl |-> impl,
                       status |-> IF failed THEN 500 ELSE 200,
                       body |-> IF failed THEN errorBody ELSE "status"]

\* mutation of apiStatus_script: the probe gives up once a snapshot has
\* been answered
apiStatus_script_mut(smi, fault, mem, cpus) ==
    statusRun("script", smi, fault, mem, cpus,
              IF prev.taken THEN Returned(detectionFailed)
              ELSE tryCheckGPUSupport_script(env, smi, fault),
              checkDockerOffload_script(env, host, dockerenv),
              getSystemInfo(mem[1], mem[2], cpus, host),
              "express error page")

\* src/unnamed/part_000:308-319: no try/catch, an exception reaches
\* Express, whose default error handler answers 500
apiStatus_script(smi, fault, mem, cpus) ==
    statusRun("script", smi, fault, mem, cpus,
              tryCheckGPUSupport_script(env, smi, fault),
              checkDockerOffload_script(env, host, dockerenv),
              getSystemInfo(mem[1], mem[2], cpus, host),
              "express error page")

\* src/README.md:821-845: the catch block answers 500 'Failed to get status'
apiStatus_envFirst(smi, fault, mem, cpus) ==
    statusRun("envFirst", smi, fault, mem, cpus,
              tryCheckGPUSupport_envFirst(env, smi, fault),
              checkDockerOffload_envFirst(env, host, dockerenv),
              getSystemInfo(mem[1], mem[2], cpus, host),
              "Failed to get status")

ApiStatus_script ==
    /\ response = NoResponse
    /\ \E smi \in SmiOutcomes, mem \in MemReadings, cpus \in CpuCounts :
           apiStatus_script(smi, FALSE, mem, cpus)
    /\ UNCHANGED <<env, dockerenv, host, prev, appVars, clientVars, procVars>>

ApiStatus_envFirst ==
    /\ response = NoResponse
    /\ \E smi \in SmiOutcomes, mem \in MemReadings, cpus \in CpuCounts :
           apiStatus_envFirst(smi, FALSE, mem, cpus)
    /\ UNCHANGED <<env, dockerenv, host, prev, appVars, clientVars, procVars>>

(***************************************************************************)
(* GET /health.                                                            *)
(***************************************************************************)
\* src/app.js:300-307: the body holds os.hostname()
Health_appjs ==
    /\ response = NoResponse
    /\ response' = [route |-> "/health", impl |-> "app.js",
                    status |-> IF host.fails THEN 500 ELSE 200,
                    body |-> IF host.fails THEN "express error page" ELSE "healthy"]
    /\ gpu' = NotCalled
    /\ docker' = NotCalled
    /\ system' = NotCalled
    /\ UNCHANGED <<env, dockerenv, host, prev, appVars, clientVars, procVars>>

\* src/README.md:847-854
Health_envFirst ==
    /\ response = NoResponse
    /\ response' = [route |-> "/health", impl |-> "envFirst",
                    status |-> 200, body |-> "healthy"]
    /\ gpu' = NotCalled
    /\ docker' = NotCalled
    /\ system' = NotCalled
    /\ UNCHANGED <<env, dockerenv, host, prev, appVars, clientVars, procVars>>

\* the handler returns: its locals go out of scope, the server is idle
HandlerReturns ==
    /\ response # NoResponse
    /\ response' = NoResponse
    /\ gpu' = NotCalled
    /\ docker' = NotCalled
    /\ system' = NotCalled
    /\ UNCHANGED <<env, dockerenv, host, prev, appVars, clientVars, procVars>>

Next ==
    \/ HandlerReturns
    \/ ApiStatus_script
    \/ ApiStatus_envFirst
    \/ Health_appjs
    \/ Health_envFirst

Spec == Init /\ [][Next]_vars

(***************************************************************************)
(* The same handlers when an exception can be raised inside the probe.     *)
(* The memory and CPU readings are held at one value here.                 *)
(***************************************************************************)
ProbeMem == <<MaxMemUnits, 1>>
ProbeCpus == 4

StatusProbe_script ==
    /\ response = NoResponse
    /\ \E smi \in SmiOutcomes, fault \in BOOLEAN :
           apiStatus_script(smi, fault, ProbeMem, ProbeCpus)
    /\ UNCHANGED <<env, dockerenv, host, prev, appVars, clientVars, procVars>>

StatusProbe_envFirst ==
    /\ response = NoResponse
    /\ \E smi \in SmiOutcomes, fault \in BOOLEAN :
           apiStatus_envFirst(smi, fault, ProbeMem, ProbeCpus)
    /\ UNCHANGED <<env, dockerenv, host, prev, appVars, clientVars, procVars>>

NextFaults ==
    \/ HandlerReturns
    \/ StatusProbe_script
    \/ StatusProbe_envFirst

SpecFaults == Init /\ [][NextFaults]_vars

(***************************************************************************)
(* Successive status snapshots.  prev remembers the snapshot answered      *)
(* before the current one, with the marker file as it was then; the marker *)
(* file can appear or disappear between two requests.                      *)
(***************************************************************************)
SnapshotSmi ==
    {SmiFailed,
     [ok |-> TRUE, stdout |-> <<>>],
     [ok |-> TRUE, stdout |-> WellFormedOutput(TeslaT4, <<16384, 1024, 55, 10>>)]}

Snapshot_script ==
    /\ response = NoResponse
    /\ \E smi \in SnapshotSmi : apiStatus_script(smi, FALSE, ProbeMem, ProbeCpus)
    /\ UNCHANGED <<env, dockerenv, host, prev, appVars, clientVars, procVars>>

Snapshot_envFirst ==
    /\ response = NoResponse
    /\ \E smi \in SnapshotSmi : apiStatus_envFirst(smi, FALSE, ProbeMem, ProbeCpus)
    /\ UNCHANGED <<env, dockerenv, host, prev, appVars, clientVars, procVars>>

SnapshotReturns ==
    /\ response # NoResponse
    /\ prev' = [taken |-> TRUE, impl |-> response.impl, dockerenv |-> dockerenv,
                gpu |-> gpu, docker |-> docker]
    /\ response' = NoResponse
    /\ gpu' = NotCalled
    /\ docker' = NotCalled
    /\ system' = NotCalled
    /\ UNCHANGED <<env, dockerenv, host, appVars, clientVars, procVars>>

MarkerChanges ==
    /\ response = NoResponse
    /\ dockerenv' = ~dockerenv
    /\ UNCHANGED <<env, host, gpu, docker, system, response, prev, appVars, clientVars, procVars>>

NextSnapshots ==
    \/ Snapshot_script
    \/ Snapshot_envFirst
    \/ SnapshotReturns
    \/ MarkerChanges

SpecSnapshots == Init /\ [][NextSnapshots]_vars

(***************************************************************************)
(* The src/app.js server.  Its handlers for / and /gpu are async: they     *)
(* await getGPUInfo and then runGPUTest, and each await ends when the      *)
(* nvidia-smi child it started settles.  The handlers share no variable,   *)
(* so one request is followed at a time.  spawned is the list of the       *)
(* children the request has started.                                       *)
(***************************************************************************)
TicksPerSecond == 2
MaxClock == 3

\* outcomes of the first invocation: failure, one GPU, two GPUs, a line
\* with too few fields, nothing
AppJsSmi ==
    {SmiFailed} \cup
    {[ok |-> TRUE, stdout |-> o] :
        o \in {WellFormedOutput(TeslaT4, <<16384, 1024, 55, 10>>),
               TeslaT4 \o CommaSpace \o Digits(16384) \o <<NL>>,
               <<>>} \cup TwoLineOutputs}

\* outcomes of  nvidia-smi --query-gpu=count
CountOutcomes ==
    {SmiFailed,
     [ok |-> TRUE, stdout |-> <<"1", NL>>],
     [ok |-> TRUE, stdout |-> <<"0", NL>>],
     [ok |-> TRUE, stdout |-> <<>>]}

\* a child started by execAsync(cmd): exec is given no timeout option;
\* hangs tells whether the child would ever exit on its own
child(cmd, hangs) ==
    [cmd |-> cmd, timeout |-> FALSE, hangs |-> hangs, exit |-> "running"]

\* the third command runs nvidia-smi under  timeout 5s
childUnderTimeout(cmd, hangs) ==
    [cmd |-> cmd, timeout |-> TRUE, hangs |-> hangs, exit |-> "running"]

\* the promise of the last child settles
Settles(spawned) ==
    LET c == spawned[Len(spawned)] IN c.timeout \/ ~c.hangs

Settled(spawned, ok) ==
    [spawned EXCEPT ![Len(spawned)].exit = IF ok THEN "ok" ELSE "failed"]

InitAppJs ==
    /\ env \in AppJsEnvs
    /\ dockerenv = FALSE
    /\ host \in HostStates
    /\ gpu = NotCalled
    /\ docker = NotCalled
    /\ system = NotCalled
    /\ response = NoResponse
    /\ prev = NoSnapshot
    /\ clock = 0
    /\ appjs = AppIdle
    /\ shown = {}
    /\ countdown = RefreshSeconds
    /\ refreshInterval = FALSE
    /\ fetches = <<>>
    /\ timers = <<>>
    /\ display = Placeholder
    /\ indicator = Refreshing
    /\ poll = NoPoll
    /\ uptimeText = NotFormatted
    /\ connections = 0
    /\ closing = 0
    /\ forceTimers = <<>>
    /\ signals = <<>>
    /\ exit = Running

Tick ==
    /\ clock < MaxClock
    /\ clock' = clock + 1
    /\ UNCHANGED <<serverVars, prev, appjs, shown, clientVars, procVars>>

\* src/app.js:84-99: systemInfo is built first, and os.hostname() may
\* throw; then getGPUInfo starts its child
Home_appjs ==
    /\ appjs = AppIdle
    /\ \E hangs \in BOOLEAN :
           appjs' = IF host.fails
                    THEN [pc |-> "rejected", route |-> "/"]
                    ELSE [pc |-> "getGPUInfo", route |-> "/",
                          spawned |-> <<child("query-gpu", hangs)>>]
    /\ UNCHANGED <<serverVars, prev, clock, shown, clientVars, procVars>>

\* src/app.js:310-311
Gpu_appjs ==
    /\ appjs = AppIdle
    /\ \E hangs \in BOOLEAN :
           appjs' = [pc |-> "getGPUInfo", route |-> "/gpu",
                     spawned |-> <<child("query-gpu", hangs)>>]
    /\ UNCHANGED <<serverVars, prev, clock, shown, clientVars, procVars>>

\* the first await ends: getGPUInfo returns, runGPUTest starts its child
GetGPUInfoSettles ==
    /\ appjs.pc = "getGPUInfo"
    /\ Settles(appjs.spawned)
    /\ \E smi \in AppJsSmi, hangs \in BOOLEAN :
           appjs' = [pc |-> "runGPUTest", route |-> appjs.route,
                     spawned |-> Append(Settled(appjs.spawned, smi.ok),
                                        child("query-count", hangs)),
                     smi |-> smi,
                     gpuInfo |-> getGPUInfo_appjs(env, smi)]
    /\ UNCHANGED <<serverVars, prev, clock, shown, clientVars, procVars>>

\* runGPUTest has returned gpuTest: / renders the page, whose Runtime Info
\* card shows new Date().toLocaleString() as 'Started' (line 271); /gpu
\* answers the JSON of lines 314-318
answer_appjs(spawned, gpuTest) ==
    LET started == toLocaleString(clock, TicksPerSecond)
    IN /\ appjs' = [pc |-> "answered", route |-> appjs.route, spawned |-> spawned,
                    smi |-> appjs.smi, gpuInfo |-> appjs.gpuInfo,
                    gpuTest |-> gpuTest, status |-> 200,
                    started |-> IF appjs.route = "/" THEN {started} ELSE {}]
       /\ shown' = IF appjs.route = "/" THEN shown \cup {started} ELSE shown

\* the count query settles (lines 51-77)
CountSettles ==
    /\ appjs.pc = "runGPUTest"
    /\ Settles(appjs.spawned)
    /\ \E out \in CountOutcomes, hangs \in BOOLEAN :
           IF out.ok /\ gpuCount_appjs(out.stdout) > 0
           THEN /\ appjs' = [appjs EXCEPT
                                !.pc = "bandwidthTest",
                                !.spawned = Append(Settled(@, TRUE),
                                                   childUnderTimeout("query-memory", hangs))]
                /\ shown' = shown
           ELSE answer_appjs(Settled(appjs.spawned, out.ok),
                             IF out.ok THEN testFailed_appjs
                             ELSE testFallback_appjs(env))
    /\ UNCHANGED <<serverVars, prev, clock, clientVars, procVars>>

\* the third command settles (line 56): with  || echo  it never fails
BandwidthSettles ==
    /\ appjs.pc = "bandwidthTest"
    /\ Settles(appjs.spawned)
    /\ answer_appjs(Settled(appjs.spawned, TRUE), testCompleted_appjs)
    /\ UNCHANGED <<serverVars, prev, clock, clientVars, procVars>>

RequestEnds ==
    /\ appjs.pc = "answered"
    /\ appjs' = AppIdle
    /\ UNCHANGED <<serverVars, prev, clock, shown, clientVars, procVars>>

\* the promise of the async handler is rejected and nobody handles it: no
\* answer is sent, and depending on the Node.js version the process goes on
\* or exits
RejectionUnhandled ==
    /\ appjs.pc = "rejected"
    /\ appjs' \in {AppIdle, [pc |-> "exited"]}
    /\ UNCHANGED <<serverVars, prev, clock, shown, clientVars, procVars>>

NextAppJs ==
    \/ Tick
    \/ Home_appjs
    \/ Gpu_appjs
    \/ GetGPUInfoSettles
    \/ CountSettles
    \/ BandwidthSettles
    \/ RequestEnds
    \/ RejectionUnhandled

SpecAppJs == InitAppJs /\ [][NextAppJs]_vars

(***************************************************************************)
(* The client page (src/public/index.html:456-586).  Time is counted in    *)
(* ticks of the 1-second interval timer.  A fetch settles at any moment,   *)
(* at the latest after MaxLatency ticks; the error follow-up timer, set    *)
(* between two ticks, fires after ErrorDelayTicks ticks and before the     *)
(* next one.                                                               *)
(***************************************************************************)
MaxLatency == 32

\* bodies of /api/status: the status of a cloud container with a GPU, the
\* status of a local run without one, and the body of the 500 answer
\* (src/README.md:837-844)
StatusPayloads ==
    {[has |-> {"dockerOffload", "gpu", "system"}, enabled |-> TRUE, detected |-> TRUE,
      memoryUsagePercent |-> 85],
     [has |-> {"dockerOffload", "gpu", "system"}, enabled |-> FALSE, detected |-> FALSE,
      memoryUsagePercent |-> 40]}

ErrorPayload ==
    [has |-> {"error", "timestamp", "success"}, enabled |-> FALSE, detected |-> FALSE,
     memoryUsagePercent |-> 0]

\* the ways a fetch fails
FetchFailures == {"fetch rejects", "body is not JSON", "error payload"}

InitClient ==
    /\ env = [v \in EnvVars |-> JsUndefined]
    /\ dockerenv = FALSE
    /\ host = [fails |-> FALSE, name |-> ShortName]
    /\ gpu = NotCalled
    /\ docker = NotCalled
    /\ system = NotCalled
    /\ response = NoResponse
    /\ prev = NoSnapshot
    /\ clock = 0
    /\ appjs = AppIdle
    /\ shown = {}
    /\ countdown = RefreshSeconds
    /\ refreshInterval = FALSE
    /\ fetches = <<>>
    /\ timers = <<>>
    /\ display = Placeholder
    /\ indicator = Refreshing
    /\ poll = NoPoll
    /\ uptimeText = NotFormatted
    /\ connections = 0
    /\ closing = 0
    /\ forceTimers = <<>>
    /\ signals = <<>>
    /\ exit = Running

Remove(seq, i) == SubSeq(seq, 1, i - 1) \o SubSeq(seq, i + 1, Len(seq))
Aged(seq) == [i \in 1..Len(seq) |-> seq[i] + 1]

\* the status message (lines 527-536)
statusMessage(data) ==
    IF data.enabled /\ data.detected THEN "Docker Offload Active with GPU"
    ELSE IF data.enabled THEN "Docker Offload Active"
    ELSE IF data.detected THEN "GPU Detected"
    ELSE "Local Runtime"

\* the class of the memory bar (lines 506-513)
memoryProgress(percent) ==
    IF percent > 80 THEN "danger" ELSE IF percent > 60 THEN "warning" ELSE "normal"

\* mutation of updateStatus: dockerOffload?.enabled in the place of
\* dockerOffload.enabled
updateStatus_mut(d, data) ==
    LET d1 == [d EXCEPT !.dockerCard =
                    IF "dockerOffload" \in data.has /\ data.enabled
                    THEN "cloud" ELSE "local"]
        d2 == [d1 EXCEPT !.gpuCard = IF data.detected THEN "detected" ELSE "none"]
    IN IF "gpu" \notin data.has THEN [threw |-> TRUE, display |-> d1]
       ELSE IF "system" \notin data.has THEN [threw |-> TRUE, display |-> d2]
       ELSE [threw |-> FALSE,
             display |-> [d2 EXCEPT !.info = "status",
                                    !.bars = memoryProgress(data.memoryUsagePercent),
                                    !.message = statusMessage(data)]]

\* updateStatus(data) (lines 469-537) writes the page from top to bottom and
\* throws a TypeError at the first read of a field of a missing object:
\* dockerOffload.enabled (line 473), gpu.detected (line 484),
\* system.hostname (line 499)
updateStatus(d, data) ==
    LET d1 == [d EXCEPT !.dockerCard = IF data.enabled THEN "cloud" ELSE "local"]
        d2 == [d1 EXCEPT !.gpuCard = IF data.detected THEN "detected" ELSE "none"]
    IN IF "dockerOffload" \notin data.has THEN [threw |-> TRUE, display |-> d]
       ELSE IF "gpu" \notin data.has THEN [threw |-> TRUE, display |-> d1]
       ELSE IF "system" \notin data.has THEN [threw |-> TRUE, display |-> d2]
       ELSE [threw |-> FALSE,
             display |-> [d2 EXCEPT !.info = "status",
                                    !.bars = memoryProgress(data.memoryUsagePercent),
                                    !.message = statusMessage(data)]]

\* fetchStatus() up to its first await (lines 539-545): one more fetch is
\* in flight; since ticks have gone since the last fetch started
fetchStatus(fs, since) ==
    /\ fetches' = Append(fs, 0)
    /\ indicator' = Refreshing
    /\ poll' = [since |-> 0,
                gap |-> IF refreshInterval THEN <<since>> ELSE <<>>,
                failed |-> FALSE,
                recovered |-> poll.failed]

\* mutation of updateCountdown: countdown < 0 in the place of countdown <= 0
updateCountdown_mut(fs, since) ==
    IF countdown < 0
    THEN /\ countdown' = RefreshSeconds
         /\ fetchStatus(fs, since)
    ELSE /\ countdown' = countdown - 1
         /\ fetches' = fs
         /\ indicator' = NextRefresh(countdown)
         /\ poll' = [poll EXCEPT !.since = since]

\* updateCountdown() (lines 560-570), called with since ticks gone since
\* the last fetch started and fs the fetches in flight
updateCountdown(fs, since) ==
    IF countdown <= 0
    THEN /\ countdown' = RefreshSeconds
         /\ fetchStatus(fs, since)
    ELSE /\ countdown' = countdown - 1
         /\ fetches' = fs
         /\ indicator' = NextRefresh(countdown)
         /\ poll' = [poll EXCEPT !.since = since]

\* lines 572-579
DOMContentLoaded ==
    /\ ~refreshInterval
    /\ fetchStatus(fetches, 0)
    /\ refreshInterval' = TRUE
    /\ UNCHANGED <<serverVars, prev, appVars, countdown, timers, display, procVars>>

\* the interval timer fires: setInterval(updateCountdown, 1000)
IntervalTick ==
    /\ refreshInterval
    /\ \A i \in 1..Len(fetches) : fetches[i] < MaxLatency
    /\ \A i \in 1..Len(timers) : timers[i] < ErrorDelayTicks
    /\ updateCountdown(Aged(fetches), poll.since + 1)
    /\ timers' = Aged(timers)
    /\ UNCHANGED <<serverVars, prev, appVars, refreshInterval, display, procVars>>

\* the awaits of lines 545-546 end and updateStatus returns (lines 547-550)
FetchSucceeds ==
    /\ \E i \in 1..Len(fetches), data \in StatusPayloads :
           LET r == updateStatus(display, data)
           IN /\ ~r.threw
              /\ display' = r.display
              /\ updateCountdown(Remove(fetches, i), poll.since)
    /\ UNCHANGED <<serverVars, prev, appVars, refreshInterval, timers, procVars>>

\* mutation of FetchFails: the catch block clears the interval timer
FetchFails_mut ==
    /\ \E i \in 1..Len(fetches), failure \in FetchFailures :
           LET r == updateStatus(display, ErrorPayload)
           IN /\ r.threw
              /\ fetches' = Remove(fetches, i)
              /\ display' = IF failure = "error payload" THEN r.display ELSE display
    /\ timers' = Append(timers, 0)
    /\ indicator' = FetchError
    /\ poll' = [poll EXCEPT !.failed = TRUE]
    /\ refreshInterval' = FALSE
    /\ UNCHANGED <<serverVars, prev, appVars, countdown, procVars>>

\* fetch rejects, response.json() rejects, or updateStatus throws on the
\* error payload: the catch block (lines 551-557)
FetchFails ==
    /\ \E i \in 1..Len(fetches), failure \in FetchFailures :
           LET r == updateStatus(display, ErrorPayload)
           IN /\ r.threw
              /\ fetches' = Remove(fetches, i)
              /\ display' = IF failure = "error payload" THEN r.display ELSE display
    /\ timers' = Append(timers, 0)
    /\ indicator' = FetchError
    /\ poll' = [poll EXCEPT !.failed = TRUE]
    /\ UNCHANGED <<serverVars, prev, appVars, refreshInterval, countdown, procVars>>

\* setTimeout(() => updateCountdown(), 2000) fires (line 556)
TimerFires ==
    /\ timers # <<>>
    /\ Head(timers) = ErrorDelayTicks
    /\ timers' = Tail(timers)
    /\ updateCountdown(fetches, poll.since)
    /\ UNCHANGED <<serverVars, prev, appVars, refreshInterval, display, procVars>>

NextClient ==
    \/ DOMContentLoaded
    \/ IntervalTick
    \/ FetchSucceeds
    \/ FetchFails
    \/ TimerFires

SpecClient == InitClient /\ [][NextClient]_vars

\* the timers of the page keep firing and every fetch settles
SpecClientFair ==
    /\ SpecClient
    /\ WF_vars(IntervalTick)
    /\ WF_vars(TimerFires)
    /\ WF_vars(FetchSucceeds \/ FetchFails)

(***************************************************************************)
(* The uptime text.  /api/status puts process.uptime(), a number of        *)
(* seconds with a fraction, in system.uptime and formatUptime of it in     *)
(* system.formattedUptime (src/README.md:795, 827-828); the page formats   *)
(* system.uptime with its own formatUptime (src/public/index.html:523).    *)
(* clock is the time since the process started, in ticks.                  *)
(***************************************************************************)
MaxUptimeSeconds == 65

\* the uptimes looked at: every tick of the first seconds, and some around
\* one minute, one hour, two hours and one day
Uptimes ==
    0..(MaxUptimeSeconds * TicksPerSecond) \cup
    {sec * TicksPerSecond + f :
        sec \in {119, 120, 3599, 3600, 3660, 7199, 7200, 7320, 86400},
        f \in 0..(TicksPerSecond - 1)}

Plural(n) == IF n # 1 THEN <<"s">> ELSE <<>>

\* formatUptime of the server (src/README.md:803-814), of t ticks
formatUptime_server(t) ==
    LET hours == t \div (3600 * TicksPerSecond)
        minutes == (t % (3600 * TicksPerSecond)) \div (60 * TicksPerSecond)
        floorSeconds == t \div TicksPerSecond
    IN IF hours > 0
       THEN Digits(hours) \o <<" ", "h", "o", "u", "r">> \o Plural(hours)
                \o <<",", " ">> \o Digits(minutes) \o <<" ", "m", "i", "n">>
       ELSE IF minutes > 0
       THEN Digits(minutes) \o <<" ", "m", "i", "n", "u", "t", "e">> \o Plural(minutes)
       ELSE Digits(floorSeconds) \o <<" ", "s", "e", "c", "o", "n", "d">>
                \o Plural(floorSeconds)

\* formatUptime of the page (src/public/index.html:460-467), of t ticks
formatUptime_client(t) ==
    LET hours == t \div (3600 * TicksPerSecond)
        minutes == (t % (3600 * TicksPerSecond)) \div (60 * TicksPerSecond)
    IN IF hours > 0
       THEN Digits(hours) \o <<" ", "h", "o", "u", "r">> \o Plural(hours)
                \o <<",", " ">> \o Digits(minutes) \o <<" ", "m", "i", "n">>
       ELSE Digits(minutes) \o <<" ", "m", "i", "n", "u", "t", "e">> \o Plural(minutes)

\* the process has been up for some more time
UptimePasses ==
    /\ uptimeText = NotFormatted
    /\ \E t \in Uptimes : t > clock /\ clock' = t
    /\ UNCHANGED <<serverVars, prev, appjs, shown, clientVars,
                   uptimeText, connections, closing, forceTimers, signals, exit>>

\* one snapshot: the server formats the uptime, the page formats it again
UptimeShown ==
    /\ uptimeText = NotFormatted
    /\ uptimeText' = [server |-> formatUptime_server(clock),
                      client |-> formatUptime_client(clock)]
    /\ UNCHANGED <<serverVars, prev, appVars, clientVars,
                   connections, closing, forceTimers, signals, exit>>

\* the next snapshot replaces the texts
UptimeCleared ==
    /\ uptimeText # NotFormatted
    /\ uptimeText' = NotFormatted
    /\ UNCHANGED <<serverVars, prev, appVars, clientVars,
                   connections, closing, forceTimers, signals, exit>>

NextUptime ==
    \/ UptimePasses
    \/ UptimeShown
    \/ UptimeCleared

SpecUptime == InitClient /\ [][NextUptime]_vars

(***************************************************************************)
(* Graceful shutdown (src/README.md:897-913).  Each SIGTERM or SIGINT runs *)
(* gracefulShutdown: server.close(callback) stops the server from          *)
(* accepting connections and registers the callback for the 'close'        *)
(* event, which the server emits once it has no open connection; and a     *)
(* timer of ForceSeconds seconds is set.  process.exit ends everything.    *)
(***************************************************************************)
\* setTimeout(..., 10000) (src/README.md:906-909)
ForceSeconds == 10
MaxConnections == 2
MaxSignals == 2

InitShutdown ==
    /\ env = [v \in EnvVars |-> JsUndefined]
    /\ dockerenv = FALSE
    /\ host = [fails |-> FALSE, name |-> ShortName]
    /\ gpu = NotCalled
    /\ docker = NotCalled
    /\ system = NotCalled
    /\ response = NoResponse
    /\ prev = NoSnapshot
    /\ clock = 0
    /\ appjs = AppIdle
    /\ shown = {}
    /\ countdown = RefreshSeconds
    /\ refreshInterval = FALSE
    /\ fetches = <<>>
    /\ timers = <<>>
    /\ display = Placeholder
    /\ indicator = Refreshing
    /\ poll = NoPoll
    /\ uptimeText = NotFormatted
    /\ connections = 0
    /\ closing = 0
    /\ forceTimers = <<>>
    /\ signals = <<>>
    /\ exit = Running

\* a client connects: only while the server is listening
ConnectionOpens ==
    /\ exit = Running
    /\ closing = 0
    /\ connections < MaxConnections
    /\ connections' = connections + 1
    /\ UNCHANGED <<serverVars, prev, appVars, clientVars,
                   uptimeText, closing, forceTimers, signals, exit>>

\* a connection ends
ConnectionCloses ==
    /\ exit = Running
    /\ connections > 0
    /\ connections' = connections - 1
    /\ UNCHANGED <<serverVars, prev, appVars, clientVars,
                   uptimeText, closing, forceTimers, signals, exit>>

\* process.on('SIGTERM' / 'SIGINT') (lines 912-913): gracefulShutdown
\* (lines 897-910)
Signal ==
    /\ exit = Running
    /\ Len(signals) < MaxSignals
    /\ \E sig \in {"SIGTERM", "SIGINT"} : signals' = Append(signals, sig)
    /\ closing' = closing + 1
    /\ forceTimers' = Append(forceTimers, 0)
    /\ UNCHANGED <<serverVars, prev, appVars, clientVars,
                   uptimeText, connections, exit>>

\* mutation of CloseEmitted: the exit does not wait for the connections
CloseEmitted_mut ==
    /\ exit = Running
    /\ closing > 0
    /\ exit' = <<0>>
    /\ UNCHANGED <<serverVars, prev, appVars, clientVars,
                   uptimeText, connections, closing, forceTimers, signals>>

\* the server emits 'close' and the first callback runs (lines 900-903)
CloseEmitted ==
    /\ exit = Running
    /\ closing > 0
    /\ connections = 0
    /\ exit' = <<0>>
    /\ UNCHANGED <<serverVars, prev, appVars, clientVars,
                   uptimeText, connections, closing, forceTimers, signals>>

\* one second passes for the force timers; a timer that is due fires first
SecondPasses ==
    /\ exit = Running
    /\ forceTimers # <<>>
    /\ \A i \in 1..Len(forceTimers) : forceTimers[i] < ForceSeconds
    /\ forceTimers' = Aged(forceTimers)
    /\ UNCHANGED <<serverVars, prev, appVars, clientVars,
                   uptimeText, connections, closing, signals, exit>>

\* the force timer fires (lines 906-909)
ForceTimerFires ==
    /\ exit = Running
    /\ forceTimers # <<>>
    /\ Head(forceTimers) = ForceSeconds
    /\ exit' = <<1>>
    /\ UNCHANGED <<serverVars, prev, appVars, clientVars,
                   uptimeText, connections, closing, forceTimers, signals>>

NextShutdown ==
    \/ ConnectionOpens
    \/ ConnectionCloses
    \/ Signal
    \/ CloseEmitted
    \/ SecondPasses
    \/ ForceTimerFires

SpecShutdown == InitShutdown /\ [][NextShutdown]_vars

\* time passes, and timers and events that are due are delivered
SpecShutdownFair ==
    /\ SpecShutdown
    /\ WF_vars(SecondPasses)
    /\ WF_vars(ForceTimerFires)
    /\ WF_vars(CloseEmitted)

(***************************************************************************)
(* Properties.                                                             *)
(***************************************************************************)
GpuEnvSet == IsSet(env["NVIDIA_VISIBLE_DEVICES"]) \/ IsSet(env["CUDA_VISIBLE_DEVICES"])
GpuEnvNonEmpty == Truthy(env["NVIDIA_VISIBLE_DEVICES"]) \/ Truthy(env["CUDA_VISIBLE_DEVICES"])
OffloadEnvSet == IsSet(env["DOCKER_OFFLOAD"]) \/ IsSet(env["OFFLOAD_ENABLED"])
OffloadEnvNonEmpty == Truthy(env["DOCKER_OFFLOAD"]) \/ Truthy(env["OFFLOAD_ENABLED"])

Numbers(info) ==
    <<info.memoryTotal, info.memoryUsed, info.temperature, info.utilization>>

\* C1: when neither NVIDIA_VISIBLE_DEVICES nor CUDA_VISIBLE_DEVICES is set
\* and the nvidia-smi invocation fails, checkGPUSupport returns
\* detected = false, method 'Not Detected' and four numeric fields equal to 0.
C1_NotDetected ==
    (gpu.called /\ ~GpuEnvSet /\ ~gpu.smi.ok) =>
        /\ gpu.value.detected = FALSE
        /\ gpu.value.method = "Not Detected"
        /\ Numbers(gpu.value.info) = <<0, 0, 0, 0>>

C1_Witness ==
    /\ gpu.called /\ gpu.impl = "envFirst"
    /\ ~GpuEnvSet /\ ~gpu.smi.ok
    /\ gpu.value.method = "Not Detected"

\* C2 as stated: when NVIDIA_VISIBLE_DEVICES or CUDA_VISIBLE_DEVICES is set
\* and the nvidia-smi invocation fails, the result has detected = true, method
\* 'Environment Variables' and the placeholder numbers 23034, 0, 42, 0.
C2_Original ==
    (gpu.called /\ GpuEnvSet /\ ~gpu.smi.ok) =>
        /\ gpu.value.detected = TRUE
        /\ gpu.value.method = "Environment Variables"
        /\ Numbers(gpu.value.info) = <<23034, 0, 42, 0>>

\* C2, amended: the same, when one of the two variables is set to a
\* non-empty value; a variable set to the empty string is no evidence.
C2_EnvironmentPlaceholder ==
    (gpu.called /\ GpuEnvNonEmpty /\ ~gpu.smi.ok) =>
        /\ gpu.value.detected = TRUE
        /\ gpu.value.method = "Environment Variables"
        /\ Numbers(gpu.value.info) = <<23034, 0, 42, 0>>

C2_Witness ==
    /\ gpu.called /\ gpu.impl = "script"
    /\ env["NVIDIA_VISIBLE_DEVICES"] = JsString("all")
    /\ ~gpu.smi.ok
    /\ gpu.value.info.memoryTotal = 23034

\* nvidia-smi succeeded and wrote a record
SmiWroteRecord == gpu.smi.ok /\ Trim(gpu.smi.stdout) # <<>>

\* C3 as stated: whenever nvidia-smi succeeds with a non-empty record, the
\* result has detected = true and method 'nvidia-smi', whatever the two
\* environment variables hold.
C3_Original ==
    (gpu.called /\ SmiWroteRecord) =>
        /\ gpu.value.detected = TRUE
        /\ gpu.value.method = "nvidia-smi"

\* C3, amended: whenever nvidia-smi succeeds with a non-empty record, the
\* result has detected = true; its method is 'nvidia-smi', except in the
\* environment-first variant when one of the two variables is non-empty,
\* where it is 'nvidia-smi + Environment'.
C3_ToolMethod ==
    (gpu.called /\ SmiWroteRecord) =>
        /\ gpu.value.detected = TRUE
        /\ gpu.value.method =
              IF gpu.impl = "envFirst" /\ GpuEnvNonEmpty
              THEN "nvidia-smi + Environment"
              ELSE "nvidia-smi"

C3_Witness ==
    /\ gpu.called /\ gpu.impl = "script"
    /\ SmiWroteRecord /\ GpuEnvNonEmpty
    /\ gpu.value.method = "nvidia-smi"

\* C4: in every value checkDockerOffload returns, enabled is false when the
\* marker file /.dockerenv is absent, whatever the host name and the
\* environment.
C4_NoMarkerNotEnabled ==
    (docker.called /\ ~docker.result.threw /\ ~dockerenv) =>
        docker.result.value.enabled = JsBool(FALSE)

C4_Witness ==
    /\ docker.called /\ docker.impl = "envFirst" /\ ~docker.result.threw
    /\ ~dockerenv
    /\ Len(docker.result.value.hostname) = 12
    /\ OffloadEnvNonEmpty /\ GpuEnvNonEmpty
    /\ docker.result.value.enabled = JsBool(FALSE)

C6_HealthAlways200 ==
    (response.route = "/health") =>
        (response.status = 200 /\ response.body = "healthy")

\* C7: the status aggregation never fails: a failing OS metrics call leaves
\* a zero/default field and /api/status is still answered with HTTP 200.
C7_StatusNeverFails ==
    (response.route = "/api/status") =>
        (response.status = 200 /\ response.body = "status")

\* C8: when the operating system reports a total memory of 0,
\* memoryUsagePercent is 0.
C8_ZeroTotalZeroPercent ==
    (system.called /\ ~system.result.threw /\ system.mem[1] = 0) =>
        system.result.value.memoryUsagePercent = Num(0)

\* a known total and a free amount within it
MemInRange == system.mem[1] > 0 /\ system.mem[2] <= system.mem[1]

\* C9 as stated: for total > 0 and 0 <= free <= total, memoryUsagePercent is
\* an integer in 0..100 equal to round(usedMemory / totalMemory * 100) of the
\* usedMemory and totalMemory fields of the same snapshot.
C9_Original ==
    (system.called /\ ~system.result.threw /\ MemInRange) =>
        LET v == system.result.value
        IN /\ v.memoryUsagePercent.k = "finite"
           /\ v.memoryUsagePercent.n \in 0..100
           /\ v.totalMemory > 0
           /\ v.memoryUsagePercent.n = RoundDiv(100 * v.usedMemory, v.totalMemory)

\* C9, amended: for total > 0 and 0 <= free <= total, memoryUsagePercent is
\* an integer p in 0..100 that is the percentage of the raw readings,
\* (total - free) / total * 100, rounded to the nearest integer:
\* p - 1/2 <= 100 * (total - free) / total < p + 1/2.
C9_PercentOfRawReadings ==
    (system.called /\ ~system.result.threw /\ MemInRange) =>
        LET p == system.result.value.memoryUsagePercent
            used == system.mem[1] - system.mem[2]
            total == system.mem[1]
        IN /\ p.k = "finite"
           /\ p.n \in 0..100
           /\ (2 * p.n - 1) * total <= 200 * used
           /\ 200 * used < (2 * p.n + 1) * total

\* the percentage differs from the one the rounded GB fields would give
C9_Witness ==
    /\ system.called /\ ~system.result.threw /\ MemInRange
    /\ system.result.value.totalMemory > 0
    /\ system.result.value.memoryUsagePercent.n #
          RoundDiv(100 * system.result.value.usedMemory,
                   system.result.value.totalMemory)

\* C10: for every well-formed first line 'name, total, used, temp, util' of
\* non-negative integers, the parsed record has that name and those four
\* numbers, whether or not the accelerator variables are set.
C10_ParsedRecord ==
    \A name \in GpuNames, r \in GpuNumbers :
        (gpu.called /\ gpu.smi.ok /\ gpu.smi.stdout = WellFormedOutput(name, r)) =>
            /\ gpu.value.info.name = name
            /\ Numbers(gpu.value.info) = r

\* C11 as stated: every result of checkGPUSupport with detected = false has
\* its four numeric fields equal to 0 and the one label 'No GPU' as its
\* info.name, on every path that reports no accelerator.
C11_Original ==
    (gpu.called /\ ~gpu.threw /\ ~gpu.value.detected) =>
        /\ Numbers(gpu.value.info) = <<0, 0, 0, 0>>
        /\ gpu.value.info.name = No_GPU

\* C11, amended: every result of checkGPUSupport with detected = false has
\* its four numeric fields equal to 0; its info.name is 'No GPU' on the
\* 'Not Detected' path and 'Unknown' on the 'Detection Failed' path.
C11_NoAcceleratorRecord ==
    (gpu.called /\ ~gpu.threw /\ ~gpu.value.detected) =>
        /\ Numbers(gpu.value.info) = <<0, 0, 0, 0>>
        /\ gpu.value.method \in {"Not Detected", "Detection Failed"}
        /\ gpu.value.info.name =
              IF gpu.value.method = "Detection Failed" THEN Unknown ELSE No_GPU

C11_Witness ==
    /\ gpu.called /\ gpu.fault /\ ~gpu.threw
    /\ ~gpu.value.detected
    /\ gpu.value.info.name = Unknown

\* C12: checkGPUSupport never propagates an exception.  When nvidia-smi
\* fails the result is the environment-based one or the not-detected one;
\* when any other exception is raised inside it the result has
\* detected = false and method 'Detection Failed'.
C12_ProbeNeverThrows ==
    gpu.called =>
        /\ ~gpu.threw
        /\ (~gpu.fault /\ ~gpu.smi.ok) =>
              gpu.value.method \in {"Environment Variables", "Not Detected"}
        /\ gpu.fault =>
              /\ gpu.value.detected = FALSE
              /\ gpu.value.method = "Detection Failed"

C12_Witness ==
    /\ gpu.called /\ gpu.impl = "envFirst"
    /\ gpu.fault /\ gpu.smi.ok
    /\ gpu.value.method = "Detection Failed"
    /\ response.status = 200

\* C13: checkDockerOffload never raises; when the host name cannot be read
\* it returns a value with enabled = false and container = false.
C13_OffloadNeverRaises ==
    docker.called =>
        /\ ~docker.result.threw
        /\ host.fails =>
              /\ docker.result.value.enabled = JsBool(FALSE)
              /\ docker.result.value.container = FALSE

\* C18: the enabled field of every value checkDockerOffload returns is a
\* boolean.
C18_EnabledIsBoolean ==
    (docker.called /\ ~docker.result.threw) =>
        docker.result.value.enabled.t = "boolean"

C15_StartedNeverChanges == Cardinality(shown) <= 1

InFlight == appjs.pc \in {"getGPUInfo", "runGPUTest", "bandwidthTest", "answered"}

\* C16: one request starts at most one nvidia-smi subprocess, and a failed
\* invocation is never followed by another one within the same request.
C16_AtMostOneSubprocess ==
    InFlight =>
        /\ Len(appjs.spawned) <= 1
        /\ \A i \in 1..Len(appjs.spawned) :
              appjs.spawned[i].exit = "failed" => i = Len(appjs.spawned)

\* C17: every nvidia-smi invocation carries a timeout, so no request waits
\* on a child that never exits.
C17_EveryInvocationTimesOut ==
    InFlight =>
        \A i \in 1..Len(appjs.spawned) :
            appjs.spawned[i].hangs => appjs.spawned[i].timeout

\* C19: the GPU availability reported depends on the environment only
\* through NVIDIA_VISIBLE_DEVICES and CUDA_VISIBLE_DEVICES: every
\* environment that agrees with the actual one on these two gives, with the
\* same nvidia-smi outcome, the same availability.
C19_TwoVariablesOnly ==
    appjs.pc \in {"runGPUTest", "bandwidthTest", "answered"} =>
        \A e \in AppJsEnvs :
            (/\ e["NVIDIA_VISIBLE_DEVICES"] = env["NVIDIA_VISIBLE_DEVICES"]
             /\ e["CUDA_VISIBLE_DEVICES"] = env["CUDA_VISIBLE_DEVICES"]) =>
                getGPUInfo_appjs(e, appjs.smi)[1].available
                    = appjs.gpuInfo[1].available

\* C20: after the initial fetch, consecutive fetches of the client page
\* start exactly 30 one-second timer ticks apart, for every fetch latency
\* and every fetch outcome.
C20_RefreshEvery30Ticks ==
    poll.gap # <<>> => poll.gap[1] = RefreshSeconds

\* the first line of the output has fewer than 5 fields, or one of its four
\* numeric fields is not a number
MalformedFirstLine(stdout) ==
    LET fields == Split(Split(stdout, <<NL>>)[1], CommaSpace)
    IN \/ Len(fields) < 5
       \/ \E i \in 1..4 : parseInt(fields, i) = NaN

\* what checkGPUSupport returns when the invocation itself fails
FailedToolResult ==
    IF gpu.impl = "script" THEN checkGPUSupport_script(env, SmiFailed)
    ELSE checkGPUSupport_envFirst(env, SmiFailed)

\* C21: when the first line of a successful nvidia-smi invocation has fewer
\* than 5 fields or a numeric field that is not a number, the result of
\* checkGPUSupport is the one of a failed invocation.
C21_MalformedIsFailure ==
    (gpu.called /\ gpu.smi.ok /\ MalformedFirstLine(gpu.smi.stdout)) =>
        gpu.value = FailedToolResult

\* C22: two tool outputs with the same first line give the same GPU result,
\* whatever their later lines are.
C22_FirstLineOnly ==
    appjs.pc \in {"runGPUTest", "bandwidthTest", "answered"} =>
        \A smi \in AppJsSmi :
            (/\ smi.ok /\ appjs.smi.ok
             /\ Split(smi.stdout, <<NL>>)[1] = Split(appjs.smi.stdout, <<NL>>)[1]) =>
                getGPUInfo_appjs(env, smi) = appjs.gpuInfo

\* C28: the two checkGPUSupport implementations return the same detected
\* value for every environment and every nvidia-smi outcome.
C28_SameDetected ==
    gpu.called =>
        checkGPUSupport_script(env, gpu.smi).detected
            = checkGPUSupport_envFirst(env, gpu.smi).detected

\* the lines nvidia-smi wrote, each ended by a line feed
LineCount(stdout) == Cardinality({i \in 1..Len(stdout) : stdout[i] = NL})

\* every line of the output has the five fields
WellFormed(stdout) ==
    /\ stdout # <<>>
    /\ stdout[Len(stdout)] = NL
    /\ \A line \in {Split(SubSeq(stdout, 1, Len(stdout) - 1), <<NL>>)[i] :
                        i \in 1..LineCount(stdout)} :
           Len(Split(line, CommaSpace)) = 5

\* C29: getGPUInfo of src/app.js always resolves with a non-empty list; when
\* the invocation succeeds with well-formed output the list has one entry
\* per output line, each with available = true.
C29_NonEmptyList ==
    appjs.pc \in {"runGPUTest", "bandwidthTest", "answered"} =>
        /\ Len(appjs.gpuInfo) >= 1
        /\ (appjs.smi.ok /\ WellFormed(appjs.smi.stdout)) =>
              /\ Len(appjs.gpuInfo) = LineCount(appjs.smi.stdout)
              /\ \A i \in 1..Len(appjs.gpuInfo) : appjs.gpuInfo[i].available

C29_Witness ==
    /\ appjs.pc = "answered" /\ appjs.route = "/"
    /\ appjs.smi.ok /\ WellFormed(appjs.smi.stdout)
    /\ Len(appjs.gpuInfo) = 2

FetchFailed == indicator' = FetchError

\* C24: a failed status fetch (fetch rejecting, or the 500 error payload)
\* changes none of the status cards, info fields, progress bars or status
\* message; only the refresh indicator changes.
C24_FailureKeepsDisplay == [][FetchFailed => display' = display]_vars

C24_Witness ==
    /\ indicator = FetchError
    /\ display # Placeholder
    /\ display.message = "Docker Offload Active with GPU"

\* C25: at most one /api/status fetch is in flight at any time.
C25_OneFetchInFlight == Len(fetches) <= 1

\* C26: the countdown variable of the page stays within 0..30.
C26_CountdownInRange == countdown \in 0..RefreshSeconds

C26_Witness ==
    /\ countdown = 0
    /\ timers # <<>>
    /\ poll.since < RefreshSeconds

\* C27: for every uptime the text the page shows for it equals the
\* formattedUptime string the server computes for the same snapshot.
C27_SameUptimeText ==
    uptimeText # NotFormatted => uptimeText.client = uptimeText.server

====
